---- MODULE Spec2Model ----
(***************************************************************************)
(* Model of Tripplanner.py: one Streamlit script run (a render pass) of    *)
(* the Southwest road-trip planner.  The pass reads the two sidebar        *)
(* inputs, builds the route map (create_map), then renders the day blocks, *)
(* each of which calls get_weather once.                                   *)
(*                                                                         *)
(* Conventions.  Coordinates are the source's decimal degrees times 10^4.  *)
(* Characters outside ASCII are written by their code points ("U+26C5").   *)
(* A JSON value is a tagged record: [t |-> "null"], [t |-> "int", v |-> i],*)
(* [t |-> "float", w |-> whole, f |-> tenths], [t |-> "str", v |-> s],     *)
(* [t |-> "array", a |-> seq], [t |-> "object", o |-> function on keys].   *)
(***************************************************************************)
EXTENDS Integers, Sequences, FiniteSets, TLC

VARIABLES
    start_date,   \* st.date_input value of this pass
    view_mode,    \* st.radio value of this pass
    pc,           \* position of the script
    day_date,     \* day_1_date .. day_4_date
    routes,       \* create_map: the local list `routes`
    ri, pj,       \* create_map: position of the two drawing loops
    line_coords,  \* create_map: coordinates of the line being built
    markers,      \* folium markers added to the map object m
    polylines,    \* folium polylines added to the map object m
    page,         \* page elements emitted so far, in order
    blocks,       \* day blocks (expanders) emitted so far, in order
    dayi,         \* next "if view_mode in [...]" test of the itinerary section
    calls,        \* log of get_weather calls: arguments, reply, locals, result
    requests,     \* log of HTTP GET requests issued by requests.get
    err           \* exception that ended the pass, "" when none

vars == <<start_date, view_mode, pc, day_date, routes, ri, pj, line_coords,
          markers, polylines, page, blocks, dayi, calls, requests, err>>

(***************************************************************************)
(* Bounds of the model                                                     *)
(***************************************************************************)
FirstYear == 2023
NumYears == 2
CodeBelow == 2
MaxCode == 100

Years == FirstYear..(FirstYear + NumYears - 1)
Codes == (0 - CodeBelow)..MaxCode

(***************************************************************************)
(* Calendar: datetime.date and date + timedelta(days=k)                    *)
(***************************************************************************)
IsLeap(y) == y % 4 = 0 /\ (y % 100 # 0 \/ y % 400 = 0)

DaysInMonthTable == <<31, 28, 31, 30, 31, 30, 31, 31, 30, 31, 30, 31>>

DaysInMonth(y, m) == IF m = 2 /\ IsLeap(y) THEN 29 ELSE DaysInMonthTable[m]

DaysBeforeYear(y) ==
    LET p == y - 1 IN p * 365 + (p \div 4) - (p \div 100) + (p \div 400)

RECURSIVE DaysBeforeMonthPlain(_)
DaysBeforeMonthPlain(m) ==
    IF m <= 1 THEN 0 ELSE DaysBeforeMonthPlain(m - 1) + DaysInMonthTable[m - 1]

DaysBeforeMonth(y, m) ==
    DaysBeforeMonthPlain(m) + (IF m > 2 /\ IsLeap(y) THEN 1 ELSE 0)

\* date.toordinal()
ToOrdinal(dt) == DaysBeforeYear(dt.y) + DaysBeforeMonth(dt.y, dt.m) + dt.d

\* date.fromordinal(n): the 400/100/4/1-year cycle decomposition
FromOrdinal(ord) ==
    LET n0 == ord - 1
        n400 == n0 \div 146097
        r400 == n0 % 146097
        n100 == r400 \div 36524
        r100 == r400 % 36524
        n4 == r100 \div 1461
        r4 == r100 % 1461
        n1 == r4 \div 365
        n == r4 % 365
        year == n400 * 400 + 1 + n100 * 100 + n4 * 4 + n1
    IN  IF n1 = 4 \/ n100 = 4
        THEN [y |-> year - 1, m |-> 12, d |-> 31]
        ELSE LET leapyear == n1 = 3 /\ (n4 # 24 \/ n100 = 3)
                 lp == IF leapyear THEN 1 ELSE 0
                 month0 == (n + 50) \div 32
                 prec0 == DaysBeforeMonthPlain(month0)
                              + (IF month0 > 2 THEN lp ELSE 0)
                 month == IF prec0 > n THEN month0 - 1 ELSE month0
                 prec == IF prec0 > n
                         THEN prec0 - (DaysInMonthTable[month]
                                          + (IF month = 2 THEN lp ELSE 0))
                         ELSE prec0
             IN  [y |-> year, m |-> month, d |-> n - prec + 1]

\* date + timedelta(days=k)
AddDays(dt, k) == FromOrdinal(ToOrdinal(dt) + k)

\* the values st.date_input can hand to a pass: the first day and the last
\* days of every month of the modelled years
StartDates ==
    {[y |-> yy, m |-> mm, d |-> dd] :
        yy \in Years, mm \in 1..12, dd \in {1} \cup 28..31}
    \cap {dt \in [y : Years, m : 1..12, d : 1..31] : dt.d <= DaysInMonth(dt.y, dt.m)}

Pad2(n) == IF n < 10 THEN "0" \o ToString(n) ELSE ToString(n)

MonthAbbr ==
    <<"Jan", "Feb", "Mar", "Apr", "May", "Jun",
      "Jul", "Aug", "Sep", "Oct", "Nov", "Dec">>

\* date.strftime('%Y-%m-%d')
StrftimeYmd(dt) == ToString(dt.y) \o "-" \o Pad2(dt.m) \o "-" \o Pad2(dt.d)

\* date.strftime('%b %d')
StrftimeBd(dt) == MonthAbbr[dt.m] \o " " \o Pad2(dt.d)

(***************************************************************************)
(* Static tables                                                           *)
(***************************************************************************)
Loc(lat, lon, type) == [coords |-> <<lat, lon>>, type |-> type]

LOCATIONS ==
    [n \in {"Phoenix Airport", "Phoenix Downtown", "Route 93", "Henderson",
            "Hoover Dam", "Bypass Bridge", "Arizona Scenic Overlook",
            "Joshua Tree Forest", "Las Vegas Strip", "Grand Canyon West",
            "Grand Canyon South", "Flagstaff", "Sedona", "Cathedral Rock",
            "Chapel of Holy Cross", "Bell Rock", "St. Thomas Orthodox Church"} |->
        CASE n = "Phoenix Airport" -> Loc(334352, -1120101, "start")
          [] n = "Phoenix Downtown" -> Loc(334484, -1120740, "stop")
          [] n = "Route 93" -> Loc(347000, -1133000, "waypoint")
          [] n = "Henderson" -> Loc(360395, -1149817, "stop")
          [] n = "Hoover Dam" -> Loc(360160, -1147377, "highlight")
          [] n = "Bypass Bridge" -> Loc(360145, -1147390, "waypoint")
          [] n = "Arizona Scenic Overlook" -> Loc(360095, -1147350, "waypoint")
          [] n = "Joshua Tree Forest" -> Loc(358500, -1141500, "highlight")
          [] n = "Las Vegas Strip" -> Loc(361147, -1151728, "stop")
          [] n = "Grand Canyon West" -> Loc(359897, -1138214, "highlight")
          [] n = "Grand Canyon South" -> Loc(360544, -1121401, "highlight")
          [] n = "Flagstaff" -> Loc(351983, -1116513, "stop")
          [] n = "Sedona" -> Loc(348697, -1117610, "stop")
          [] n = "Cathedral Rock" -> Loc(348189, -1117925, "highlight")
          [] n = "Chapel of Holy Cross" -> Loc(348322, -1117663, "highlight")
          [] n = "Bell Rock" -> Loc(348016, -1117613, "highlight")
          [] n = "St. Thomas Orthodox Church" -> Loc(334660, -1120310, "highlight")]

\* keys of the IMAGES dictionary
IMAGES ==
    {"PHX", "Hoover Dam", "Hoover Bridge", "Vegas", "GC West", "GC South",
     "Cathedral Rock", "Chapel", "Church"}

ViewModes == {"Overview", "Day 1", "Day 2", "Day 3", "Day 4"}

DayName(n) == "Day " \o ToString(n)

\* mutant of RouteTable: day 3 starts at Sedona, as its name says
RouteTableFromSedona ==
    <<[name |-> "Day 1: PHX to Vegas", color |-> "#E91E63",
       points |-> <<"Phoenix Airport", "Route 93", "Henderson", "Hoover Dam",
                    "Hoover Bridge", "Las Vegas Strip">>],
      [name |-> "Day 2: Vegas to Flagstaff", color |-> "#9C27B0",
       points |-> <<"Las Vegas Strip", "Hoover Dam", "Bypass Bridge",
                    "Arizona Scenic Overlook", "Joshua Tree Forest",
                    "Grand Canyon West", "Grand Canyon South", "Flagstaff">>],
      [name |-> "Day 3: Sedona to Phoenix", color |-> "#FF9800",
       points |-> <<"Sedona", "Cathedral Rock",
                    "Chapel of Holy Cross", "Bell Rock", "Phoenix Downtown">>],
      [name |-> "Day 4: Phoenix & Departure", color |-> "#4CAF50",
       points |-> <<"Phoenix Downtown", "St. Thomas Orthodox Church",
                    "Phoenix Airport">>]>>

\* the four route literals of create_map, by day
RouteTable ==
    <<[name |-> "Day 1: PHX to Vegas", color |-> "#E91E63",
       points |-> <<"Phoenix Airport", "Route 93", "Henderson", "Hoover Dam",
                    "Hoover Bridge", "Las Vegas Strip">>],
      [name |-> "Day 2: Vegas to Flagstaff", color |-> "#9C27B0",
       points |-> <<"Las Vegas Strip", "Hoover Dam", "Bypass Bridge",
                    "Arizona Scenic Overlook", "Joshua Tree Forest",
                    "Grand Canyon West", "Grand Canyon South", "Flagstaff">>],
      [name |-> "Day 3: Sedona to Phoenix", color |-> "#FF9800",
       points |-> <<"Flagstaff", "Sedona", "Cathedral Rock",
                    "Chapel of Holy Cross", "Bell Rock", "Phoenix Downtown">>],
      [name |-> "Day 4: Phoenix & Departure", color |-> "#4CAF50",
       points |-> <<"Phoenix Downtown", "St. Thomas Orthodox Church",
                    "Phoenix Airport">>]>>

\* the static part of the four day blocks: expander title, the coordinates
\* handed to get_weather, the forecast label, the narrative and the images
DayPlans ==
    <<[title |-> "Day 1: Phoenix to Las Vegas", probe |-> <<361147, -1151728>>,
       label |-> "Las Vegas", narrative |-> "Day 1 cards",
       images |-> <<"PHX", "Hoover Dam", "Hoover Bridge", "Vegas">>],
      [title |-> "Day 2: The Grand Loop", probe |-> <<360544, -1121401>>,
       label |-> "Grand Canyon", narrative |-> "Day 2 cards",
       images |-> <<"GC West", "GC South">>],
      [title |-> "Day 3: Sedona & Return to Phoenix", probe |-> <<348697, -1117610>>,
       label |-> "Sedona", narrative |-> "Day 3 cards",
       images |-> <<"Cathedral Rock", "Chapel">>],
      [title |-> "Day 4: Church & Departure", probe |-> <<334484, -1120740>>,
       label |-> "Phoenix", narrative |-> "Day 4 cards",
       images |-> <<"Church", "PHX">>]>>

(***************************************************************************)
(* Python operations on decoded JSON values.  Each yields [exc, val]: the  *)
(* exception raised ("" when none) and the value.                          *)
(***************************************************************************)
JNull == [t |-> "null"]
JInt(i) == [t |-> "int", v |-> i]
JFloat(w, f) == [t |-> "float", w |-> w, f |-> f]
JStr(s) == [t |-> "str", v |-> s]
JArray(a) == [t |-> "array", a |-> a]
JObject(o) == [t |-> "object", o |-> o]

Ok(v) == [exc |-> "", val |-> v]
Raise(e) == [exc |-> e, val |-> JNull]

\* `key in data` for a str key.  The decoded strings of the model are
\* "daily" and "error", for which the substring test is equality.
PyContains(key, data) ==
    CASE data.t = "object" -> Ok(key \in DOMAIN data.o)
      [] data.t = "array" ->
            Ok(\E i \in 1..Len(data.a) : data.a[i].t = "str" /\ data.a[i].v = key)
      [] data.t = "str" -> Ok(data.v = key)
      [] OTHER -> Raise("TypeError")

\* `data[key]` for a str key
PyGetItem(data, key) ==
    CASE data.t = "object" ->
            IF key \in DOMAIN data.o THEN Ok(data.o[key]) ELSE Raise("KeyError")
      [] OTHER -> Raise("TypeError")

\* `x[0]`
PyFirst(x) ==
    CASE x.t = "array" -> IF Len(x.a) >= 1 THEN Ok(x.a[1]) ELSE Raise("IndexError")
      [] x.t = "str" ->
            (CASE x.v = "daily" -> Ok(JStr("d"))
               [] x.v = "error" -> Ok(JStr("e"))
               [] x.v = "" -> Raise("IndexError"))
      [] x.t = "object" -> Raise("KeyError")
      [] OTHER -> Raise("TypeError")

\* `code in [k1, k2, ...]`: == against each int literal, never raises
PyInInts(code, ks) ==
    CASE code.t = "int" -> code.v \in ks
      [] code.t = "float" -> code.f = 0 /\ code.w \in ks
      [] OTHER -> FALSE

\* `code >= k` for an int literal k >= 0
PyGe(code, k) ==
    CASE code.t = "int" -> Ok(code.v >= k)
      [] code.t = "float" -> Ok(code.w >= k)
      [] OTHER -> Raise("TypeError")

\* f"{x}" of a scalar
PyFormat(x) ==
    CASE x.t = "int" -> ToString(x.v)
      [] x.t = "float" -> ToString(x.w) \o "." \o ToString(x.f)
      [] x.t = "null" -> "None"
      [] x.t = "str" -> x.v

(***************************************************************************)
(* get_weather                                                             *)
(***************************************************************************)
\* the last arm, `elif code >= 95`, and the default
Storm(ge) ==
    IF ge.exc # "" THEN Raise(ge.exc)
    ELSE IF ge.val THEN Ok(<<"Stormy", "U+26A1">>)
    ELSE Ok(<<"Sunny", "U+2600 U+FE0F">>)

\* mutant of Classify: the last arm tests `code > 95`
ClassifyAbove95(code) ==
    IF PyInInts(code, {1, 2, 3}) THEN Ok(<<"Partly Cloudy", "qwU+26C5">>)
    ELSE IF PyInInts(code, {45, 48}) THEN Ok(<<"Foggy", "U+1F32B U+FE0F">>)
    ELSE IF PyInInts(code, {51, 53, 55, 61, 63, 65}) THEN Ok(<<"Rainy", "U+1F327 U+FE0F">>)
    ELSE IF PyInInts(code, {71, 73, 75}) THEN Ok(<<"Snow", "U+2744 U+FE0F">>)
    ELSE Storm(PyGe(code, 96))

\* the `if / elif` chain on the weather code: [exc, val |-> <<condition, icon>>]
Classify(code) ==
    IF PyInInts(code, {1, 2, 3}) THEN Ok(<<"Partly Cloudy", "qwU+26C5">>)
    ELSE IF PyInInts(code, {45, 48}) THEN Ok(<<"Foggy", "U+1F32B U+FE0F">>)
    ELSE IF PyInInts(code, {51, 53, 55, 61, 63, 65}) THEN Ok(<<"Rainy", "U+1F327 U+FE0F">>)
    ELSE IF PyInInts(code, {71, 73, 75}) THEN Ok(<<"Snow", "U+2744 U+FE0F">>)
    ELSE Storm(PyGe(code, 95))

\* the return statement of the success branch
FormatWeather(icon, condition, t_max, t_min) ==
    icon \o " " \o condition \o " | H: " \o PyFormat(t_max)
         \o "U+00B0F L: " \o PyFormat(t_min) \o "U+00B0F"

\* the query of the one requests.get call
Params(lat, lon, date) ==
    [latitude |-> lat, longitude |-> lon,
     daily |-> <<"temperature_2m_max", "temperature_2m_min", "weathercode">>,
     temperature_unit |-> "fahrenheit", timezone |-> "auto",
     start_date |-> StrftimeYmd(date), end_date |-> StrftimeYmd(date)]

NoLocals == [condition |-> "", icon |-> ""]

Outcome(exc, ret, loc, reqs) ==
    [exc |-> exc, ret |-> ret, condition |-> loc.condition, icon |-> loc.icon,
     reqs |-> reqs]

\* data["daily"][key][0]
Metric(data, key) ==
    LET daily == PyGetItem(data, "daily")
    IN  IF daily.exc # "" THEN daily
        ELSE LET arr == PyGetItem(daily.val, key)
             IN  IF arr.exc # "" THEN arr ELSE PyFirst(arr.val)

\* the return statement, given the classification of the code
Finish(cls, t_max, t_min, reqs) ==
    IF cls.exc # "" THEN Outcome(cls.exc, "", NoLocals, reqs)
    ELSE Outcome("", FormatWeather(cls.val[2], cls.val[1], t_max, t_min),
                 [condition |-> cls.val[1], icon |-> cls.val[2]], reqs)

\* the `if "daily" in data` branch: the three reads in source order, then
\* the classification and the return; the first exception ends it
Extract(t_max, t_min, code, reqs) ==
    IF t_max.exc # "" THEN Outcome(t_max.exc, "", NoLocals, reqs)
    ELSE IF t_min.exc # "" THEN Outcome(t_min.exc, "", NoLocals, reqs)
    ELSE IF code.exc # "" THEN Outcome(code.exc, "", NoLocals, reqs)
    ELSE Finish(Classify(code.val), t_max.val, t_min.val, reqs)

\* `if "daily" in data: ... else: ...`, given the value of the test
Branch(has, data, reqs) ==
    IF has.exc # "" THEN Outcome(has.exc, "", NoLocals, reqs)
    ELSE IF has.val
    THEN Extract(Metric(data, "temperature_2m_max"),
                 Metric(data, "temperature_2m_min"),
                 Metric(data, "weathercode"), reqs)
    ELSE Outcome("", "Weather unavailable (Date out of range)", NoLocals, reqs)

\* the body of the try block, after response.json() gave `data`
Interpret(data, reqs) == Branch(PyContains("daily", data), data, reqs)

\* the try block: one requests.get, then response.json(), then Interpret
TryBody(lat, lon, date, reply) ==
    LET reqs == <<Params(lat, lon, date)>>
    IN  CASE reply.kind = "ConnectionError" -> Outcome("ConnectionError", "", NoLocals, reqs)
          [] reply.kind = "JSONDecodeError" -> Outcome("JSONDecodeError", "", NoLocals, reqs)
          [] reply.kind = "json" -> Interpret(reply.body, reqs)

\* the exceptions the model's operations raise, all subclasses of Exception
ExceptionClasses ==
    {"ConnectionError", "JSONDecodeError", "TypeError", "KeyError", "IndexError"}

\* mutant of Caught: `except (KeyError, IndexError)`
CaughtLookupOnly(e) == e \in {"KeyError", "IndexError"}

\* `except Exception as e`
Caught(e) == e \in ExceptionClasses

get_weather(lat, lon, date, reply) ==
    LET r == TryBody(lat, lon, date, reply)
    IN  IF r.exc # "" /\ Caught(r.exc)
        THEN Outcome("", "Weather service offline", NoLocals, r.reqs)
        ELSE r

(***************************************************************************)
(* Replies of the forecast service: what requests.get / response.json()    *)
(* can hand to get_weather                                                 *)
(***************************************************************************)
MetricKeys == {"temperature_2m_max", "temperature_2m_min", "weathercode"}

DailyOf(K, mx, mn, cd) ==
    JObject([k \in K |->
        CASE k = "temperature_2m_max" -> mx
          [] k = "temperature_2m_min" -> mn
          [] k = "weathercode" -> cd])

Body(daily) == JObject([daily |-> daily])

One(x) == JArray(<<x>>)

Forecast(t_max, t_min, code) ==
    Body(DailyOf(MetricKeys, One(t_max), One(t_min), One(code)))

\* every integer code of the range, with the temperatures 100 / 75
IntForecasts == {Forecast(JInt(100), JInt(75), JInt(c)) : c \in Codes}

\* other temperatures and codes that are not integers
OtherForecasts ==
    {Forecast(JFloat(98, 6), JInt(0 - 5), JInt(3)),
     Forecast(JNull, JNull, JInt(0)),
     Forecast(JInt(100), JInt(75), JFloat(2, 0)),
     Forecast(JInt(100), JInt(75), JFloat(95, 5)),
     Forecast(JInt(100), JInt(75), JFloat(2, 5)),
     Forecast(JInt(100), JInt(75), JNull),
     Forecast(JInt(100), JInt(75), JStr("error")),
     Forecast(JInt(100), JInt(75), JArray(<<>>))}

\* bodies with no usable `daily` object
BrokenBodies ==
    {JNull, JInt(0), JStr("daily"), JStr("error"), JArray(<<>>),
     JArray(<<JStr("daily")>>),
     JObject([error |-> JStr("error"), reason |-> JStr("error")]),
     Body(JNull), Body(JArray(<<>>)),
     Body(DailyOf(MetricKeys, JArray(<<>>), One(JInt(75)), One(JInt(3)))),
     Body(DailyOf(MetricKeys, One(JInt(100)), JArray(<<>>), One(JInt(3)))),
     Body(DailyOf(MetricKeys, One(JInt(100)), One(JInt(75)), JArray(<<>>))),
     Body(DailyOf(MetricKeys, JNull, One(JInt(75)), One(JInt(3)))),
     Body(DailyOf(MetricKeys, JStr("daily"), JStr("daily"), One(JInt(3)))),
     Body(DailyOf(MetricKeys, One(JInt(100)), One(JInt(75)), JStr("daily")))}
    \cup {Body(DailyOf(K, One(JInt(100)), One(JInt(75)), One(JInt(3)))) :
            K \in (SUBSET MetricKeys) \ {MetricKeys}}

Replies ==
    {[kind |-> "ConnectionError", body |-> JNull],
     [kind |-> "JSONDecodeError", body |-> JNull]}
    \cup {[kind |-> "json", body |-> b] :
            b \in IntForecasts \cup OtherForecasts \cup BrokenBodies}

(***************************************************************************)
(* create_map                                                              *)
(***************************************************************************)
\* one `if show_all or day_selection == "Day k": routes.append(...)`
RouteIf(rs, day_selection, show_all, k) ==
    IF show_all \/ day_selection = DayName(k) THEN Append(rs, RouteTable[k]) ELSE rs

\* mutant of ComposeRoutes: the four ifs written as one if / elif chain
ComposeRoutesElif(day_selection, show_all) ==
    IF show_all \/ day_selection = "Day 1" THEN <<RouteTable[1]>>
    ELSE IF day_selection = "Day 2" THEN <<RouteTable[2]>>
    ELSE IF day_selection = "Day 3" THEN <<RouteTable[3]>>
    ELSE IF day_selection = "Day 4" THEN <<RouteTable[4]>>
    ELSE <<>>

\* the list `routes` after the four ifs
ComposeRoutes(day_selection, show_all) ==
    RouteIf(RouteIf(RouteIf(RouteIf(<<>>, day_selection, show_all, 1),
                            day_selection, show_all, 2),
                    day_selection, show_all, 3),
            day_selection, show_all, 4)

\* the argument show_all of the one call of create_map
ShowAll(mode) == mode = "Overview"

\* icon colour and glyph of a marker, from the location's type
MarkerStyle(type) ==
    IF type = "start" THEN <<"green", "plane">>
    ELSE IF type = "stop" THEN <<"blue", "bed">>
    ELSE IF type = "highlight" THEN <<"red", "camera">>
    ELSE <<"gray", "info-sign">>

(***************************************************************************)
(* The script                                                              *)
(***************************************************************************)
\* a pass starts after the sidebar gave this run's two inputs
Init ==
    /\ start_date \in StartDates
    /\ view_mode \in ViewModes
    /\ pc = "main"
    /\ day_date = <<>>
    /\ routes = <<>>
    /\ ri = 0
    /\ pj = 0
    /\ line_coords = <<>>
    /\ markers = <<>>
    /\ polylines = <<>>
    /\ page = <<"sidebar">>
    /\ blocks = <<>>
    /\ dayi = 0
    /\ calls = <<>>
    /\ requests = <<>>
    /\ err = ""

\* mutant of DayDates: day 4 copies day 3's offset
DayDatesCopied(sd) == <<sd, AddDays(sd, 1), AddDays(sd, 2), AddDays(sd, 2)>>

\* the four day dates
DayDates(sd) == <<sd, AddDays(sd, 1), AddDays(sd, 2), AddDays(sd, 3)>>

\* title, caption and the dates of the four days
Main ==
    /\ pc = "main"
    /\ page' = page \o <<"title", "caption">>
    /\ day_date' = DayDates(start_date)
    /\ pc' = "create_map"
    /\ UNCHANGED <<start_date, view_mode, routes, ri, pj, line_coords, markers,
                   polylines, blocks, dayi, calls, requests, err>>

\* the call of create_map up to the drawing loop
CreateMap ==
    /\ pc = "create_map"
    /\ page' = Append(page, "map header")
    /\ routes' = ComposeRoutes(view_mode, ShowAll(view_mode))
    /\ ri' = 1
    /\ pj' = 1
    /\ line_coords' = <<>>
    /\ pc' = "draw"
    /\ UNCHANGED <<start_date, view_mode, day_date, markers, polylines, blocks,
                   dayi, calls, requests, err>>

\* one turn of the inner loop: look the stop up, add its marker
DrawPoint ==
    /\ pc = "draw"
    /\ ri <= Len(routes)
    /\ pj <= Len(routes[ri].points)
    /\ LET point_name == routes[ri].points[pj]
       IN  IF point_name \notin DOMAIN LOCATIONS
           THEN /\ err' = "KeyError"
                /\ pc' = "halted"
                /\ page' = Append(page, "exception")
                /\ UNCHANGED <<pj, line_coords, markers>>
           ELSE LET loc_data == LOCATIONS[point_name]
                    style == MarkerStyle(loc_data.type)
                IN  /\ line_coords' = Append(line_coords, loc_data.coords)
                    /\ markers' = Append(markers,
                            [location |-> loc_data.coords, popup |-> point_name,
                             tooltip |-> point_name, color |-> style[1],
                             icon |-> style[2]])
                    /\ pj' = pj + 1
                    /\ UNCHANGED <<err, pc, page>>
    /\ UNCHANGED <<start_date, view_mode, day_date, routes, ri, polylines,
                   blocks, dayi, calls, requests>>

\* the end of one turn of the outer loop: the route's polyline
DrawLine ==
    /\ pc = "draw"
    /\ ri <= Len(routes)
    /\ pj > Len(routes[ri].points)
    /\ polylines' = Append(polylines,
            [coords |-> line_coords, color |-> routes[ri].color,
             tooltip |-> routes[ri].name])
    /\ ri' = ri + 1
    /\ pj' = 1
    /\ line_coords' = <<>>
    /\ UNCHANGED <<start_date, view_mode, pc, day_date, routes, markers, page,
                   blocks, dayi, calls, requests, err>>

\* create_map returns; the map and the itinerary header are emitted
ShowMap ==
    /\ pc = "draw"
    /\ ri > Len(routes)
    /\ page' = page \o <<"map", "itinerary header">>
    /\ pc' = "itinerary"
    /\ dayi' = 1
    /\ UNCHANGED <<start_date, view_mode, day_date, routes, ri, pj, line_coords,
                   markers, polylines, blocks, calls, requests, err>>

\* `if view_mode in ["Overview", "Day n"]`
Shown(mode, n) == mode \in {"Overview", DayName(n)}

\* one day block: the expander, its get_weather call, the cards, the images
DayBlock(reply) ==
    /\ pc = "itinerary"
    /\ dayi \in 1..4
    /\ Shown(view_mode, dayi)
    /\ LET plan == DayPlans[dayi]
           w == get_weather(plan.probe[1], plan.probe[2], day_date[dayi], reply)
           bad == \E i \in 1..Len(plan.images) : plan.images[i] \notin IMAGES
       IN  /\ calls' = Append(calls,
                   [day |-> dayi, lat |-> plan.probe[1], lon |-> plan.probe[2],
                    date |-> day_date[dayi], reply |-> reply, exc |-> w.exc,
                    ret |-> w.ret, condition |-> w.condition, icon |-> w.icon,
                    nreq |-> Len(w.reqs)])
           /\ requests' = requests \o w.reqs
           /\ IF w.exc # "" \/ bad
              THEN /\ err' = (IF w.exc # "" THEN w.exc ELSE "KeyError")
                   /\ pc' = "halted"
                   /\ page' = Append(page, "exception")
                   /\ UNCHANGED <<blocks, dayi>>
              ELSE /\ blocks' = Append(blocks,
                          [day |-> dayi,
                           title |-> plan.title \o " ("
                                        \o StrftimeBd(day_date[dayi]) \o ")",
                           label |-> plan.label, weather |-> w.ret,
                           narrative |-> plan.narrative, images |-> plan.images])
                   /\ dayi' = dayi + 1
                   /\ UNCHANGED <<err, pc, page>>
    /\ UNCHANGED <<start_date, view_mode, day_date, routes, ri, pj, line_coords,
                   markers, polylines>>

\* a day whose `if` is false
DaySkip ==
    /\ pc = "itinerary"
    /\ dayi \in 1..4
    /\ ~Shown(view_mode, dayi)
    /\ dayi' = dayi + 1
    /\ UNCHANGED <<start_date, view_mode, pc, day_date, routes, ri, pj,
                   line_coords, markers, polylines, page, blocks, calls,
                   requests, err>>

\* the footer; the script ends
Export ==
    /\ pc = "itinerary"
    /\ dayi = 5
    /\ page' = Append(page, "footer")
    /\ pc' = "done"
    /\ UNCHANGED <<start_date, view_mode, day_date, routes, ri, pj, line_coords,
                   markers, polylines, blocks, dayi, calls, requests, err>>

Next ==
    \/ Main
    \/ CreateMap
    \/ DrawPoint
    \/ DrawLine
    \/ ShowMap
    \/ \E reply \in Replies : DayBlock(reply)
    \/ DaySkip
    \/ Export

Spec == Init /\ [][Next]_vars

(***************************************************************************)
(* Properties                                                              *)
(***************************************************************************)
DaySelectors == <<"Day 1", "Day 2", "Day 3", "Day 4">>

\* the script has ended, normally or with an uncaught exception
Ended == pc \in {"done", "halted"}

\* create_map has built its list `routes`
Composed == pc \notin {"main", "create_map"}

Unavailable == "Weather unavailable (Date out of range)"
ServiceOffline == "Weather service offline"

\* C1: every stop of every route segment that a selector makes create_map
\* draw is a key of LOCATIONS, and no pass ends in an unknown-location
\* (KeyError) failure.
C1_StopsResolve ==
    /\ Composed =>
          \A k \in 1..Len(routes) : \A i \in 1..Len(routes[k].points) :
              routes[k].points[i] \in DOMAIN LOCATIONS
    /\ err # "KeyError"

\* C2: once create_map has composed `routes`, selector Day n gives exactly
\* the one-element list of day n's predefined segment and Overview gives the
\* four predefined segments in day order; the list is a function of the
\* selector alone.
C2_RouteSelection ==
    Composed =>
        /\ view_mode = "Overview" =>
              routes = <<RouteTable[1], RouteTable[2], RouteTable[3], RouteTable[4]>>
        /\ \A n \in 1..4 : view_mode = DaySelectors[n] => routes = <<RouteTable[n]>>

C2_Witness ==
    /\ view_mode = "Overview"
    /\ pc = "draw"
    /\ Len(routes) = 4
    /\ markers = <<>>

\* the decoded body is a JSON object that has no `daily` key
NoDailyKey(reply) ==
    /\ reply.kind = "json"
    /\ reply.body.t = "object"
    /\ "daily" \notin DOMAIN reply.body.o

\* x[0] succeeds: a non-empty array or a non-empty string
HasFirst(x) == (x.t = "array" /\ Len(x.a) >= 1) \/ (x.t = "str" /\ x.v # "")

\* the decoded body is an object whose `daily` is an object holding the three
\* metrics, each with a first element
Complete(reply) ==
    /\ reply.kind = "json"
    /\ reply.body.t = "object"
    /\ "daily" \in DOMAIN reply.body.o
    /\ reply.body.o["daily"].t = "object"
    /\ MetricKeys \subseteq DOMAIN reply.body.o["daily"].o
    /\ \A k \in MetricKeys : HasFirst(reply.body.o["daily"].o[k])

FirstOf(x) == PyFirst(x).val

CodeOf(reply) == FirstOf(reply.body.o["daily"].o["weathercode"])

ListedCodes == {1, 2, 3, 45, 48, 51, 53, 55, 61, 63, 65, 71, 73, 75}

\* the classification reaches `code >= 95` with a value that has no order
\* against an int
NonComparable(code) == code.t \notin {"int", "float"}

\* a stage of the try block fails on this reply: the request, the decoding,
\* the `in` test on a body that is no container, a `daily` that is not a
\* complete object of non-empty arrays, a code without order
StageFails(reply) ==
    \/ reply.kind \in {"ConnectionError", "JSONDecodeError"}
    \/ /\ reply.kind = "json"
       /\ \/ reply.body.t \in {"null", "int", "float"}
          \/ reply.body.t = "str" /\ reply.body.v = "daily"
          \/ reply.body.t = "array"
                /\ \E i \in 1..Len(reply.body.a) :
                      reply.body.a[i].t = "str" /\ reply.body.a[i].v = "daily"
          \/ /\ reply.body.t = "object"
             /\ "daily" \in DOMAIN reply.body.o
             /\ (~Complete(reply) \/ NonComparable(CodeOf(reply)))

Conditions == {"Sunny", "Partly Cloudy", "Foggy", "Rainy", "Snow", "Stormy"}

\* the shape "<icon> <condition> | H: <max> F L: <min> F" of a success
OkString(c) ==
    /\ c.condition \in Conditions
    /\ c.icon # ""
    /\ c.ret = c.icon \o " " \o c.condition \o " | H: "
                  \o PyFormat(FirstOf(c.reply.body.o["daily"].o["temperature_2m_max"]))
                  \o "U+00B0F L: "
                  \o PyFormat(FirstOf(c.reply.body.o["daily"].o["temperature_2m_min"]))
                  \o "U+00B0F"

\* C3: no get_weather call raises to its caller; a body without a `daily`
\* key returns the Unavailable message, a failure at any stage returns the
\* ServiceOffline message, and every other call returns the formatted string.
C3_ThreeOutcomes ==
    \A j \in 1..Len(calls) :
        LET c == calls[j]
        IN  /\ c.exc = ""
            /\ NoDailyKey(c.reply) => c.ret = Unavailable
            /\ StageFails(c.reply) => c.ret = ServiceOffline
            /\ c.ret \notin {Unavailable, ServiceOffline} =>
                  Complete(c.reply) /\ OkString(c)
            /\ (Complete(c.reply) /\ ~StageFails(c.reply)) => OkString(c)

C3_Witness ==
    /\ Len(calls) = 1
    /\ calls[1].reply.kind = "json"
    /\ calls[1].reply.body.t = "object"
    /\ "daily" \in DOMAIN calls[1].reply.body.o
    /\ ~Complete(calls[1].reply)
    /\ calls[1].ret = ServiceOffline
    /\ calls[1].exc = ""
    /\ Len(blocks) = 1

\* C4: for every integer weather code the condition is Partly Cloudy for
\* 1,2,3; Foggy for 45,48; Rainy for 51,53,55,61,63,65; Snow for 71,73,75;
\* Stormy for every code >= 95; Sunny for every other integer.
C4_Classification ==
    \A j \in 1..Len(calls) :
        LET c == calls[j]
        IN  (Complete(c.reply) /\ CodeOf(c.reply).t = "int") =>
                LET code == CodeOf(c.reply).v
                IN  /\ c.condition \in Conditions
                    /\ code \in {1, 2, 3} <=> c.condition = "Partly Cloudy"
                    /\ code \in {45, 48} <=> c.condition = "Foggy"
                    /\ code \in {51, 53, 55, 61, 63, 65} <=> c.condition = "Rainy"
                    /\ code \in {71, 73, 75} <=> c.condition = "Snow"
                    /\ code >= 95 <=> c.condition = "Stormy"
                    /\ (code < 95 /\ code \notin ListedCodes) <=> c.condition = "Sunny"

C4_Witness ==
    /\ Len(calls) = 1
    /\ Complete(calls[1].reply)
    /\ CodeOf(calls[1].reply) = JInt(95)
    /\ calls[1].condition = "Stormy"

\* the calendar day after dt
NextDay(dt) ==
    IF dt.d < DaysInMonth(dt.y, dt.m) THEN [y |-> dt.y, m |-> dt.m, d |-> dt.d + 1]
    ELSE IF dt.m < 12 THEN [y |-> dt.y, m |-> dt.m + 1, d |-> 1]
    ELSE [y |-> dt.y + 1, m |-> 1, d |-> 1]

RECURSIVE DaysAfter(_, _)
DaysAfter(dt, k) == IF k = 0 THEN dt ELSE DaysAfter(NextDay(dt), k - 1)

\* C5: the date in day n's block title and the date handed to day n's
\* get_weather call (and sent as start_date) are both the start date plus
\* n-1 calendar days.
C5_ResolvedDates ==
    /\ \A j \in 1..Len(blocks) :
          blocks[j].title = DayPlans[blocks[j].day].title \o " ("
              \o StrftimeBd(DaysAfter(start_date, blocks[j].day - 1)) \o ")"
    /\ \A j \in 1..Len(calls) :
          calls[j].date = DaysAfter(start_date, calls[j].day - 1)
    /\ \A j \in 1..Len(requests) :
          \E n \in 1..4 :
              requests[j].start_date = StrftimeYmd(DaysAfter(start_date, n - 1))
    /\ pc # "main" => \A n \in 1..4 : day_date[n] = DaysAfter(start_date, n - 1)

C5_Witness ==
    /\ start_date = [y |-> 2023, m |-> 2, d |-> 28]
    /\ Len(blocks) = 1
    /\ blocks[1].day = 3
    /\ blocks[1].title = "Day 3: Sedona & Return to Phoenix (Mar 02)"
    /\ calls[1].date = [y |-> 2023, m |-> 3, d |-> 2]
    /\ requests[1].start_date = "2023-03-02"

\* C6: an Overview pass ends with the four day blocks in order 1..4, each
\* showing the string its own get_weather call returned and its own
\* narrative, whatever the outcomes of the four fetches.
C6_OverviewIsolation ==
    (view_mode = "Overview" /\ Ended) =>
        /\ Len(blocks) = 4
        /\ Len(calls) = 4
        /\ \A n \in 1..4 :
              /\ blocks[n].day = n
              /\ calls[n].day = n
              /\ blocks[n].weather = calls[n].ret
              /\ blocks[n].narrative = DayPlans[n].narrative

StubReply == [kind |-> "json", body |-> Forecast(JInt(100), JInt(75), JInt(3))]

\* C7: the Overview pass from 2024-06-01 with every fetch answered by the
\* stub (100 / 75 / code 3) ends with four segments drawn and four day blocks
\* dated Jun 01 .. Jun 04, each with the weather string
\* "U+26C5 Partly Cloudy | H: 100U+00B0F L: 75U+00B0F".
C7_OverviewScenario ==
    (/\ start_date = [y |-> 2024, m |-> 6, d |-> 1]
     /\ view_mode = "Overview"
     /\ \A j \in 1..Len(calls) : calls[j].reply = StubReply
     /\ Ended) =>
        /\ pc = "done"
        /\ Len(polylines) = 4
        /\ Len(blocks) = 4
        /\ \A n \in 1..4 :
              /\ blocks[n].title = DayPlans[n].title \o " (Jun 0" \o ToString(n) \o ")"
              /\ blocks[n].weather = "U+26C5 Partly Cloudy | H: 100U+00B0F L: 75U+00B0F"

\* some route of the table names a stop that is not registered
TableHasUnregisteredStop ==
    \E n \in 1..4 : \E i \in 1..Len(RouteTable[n].points) :
        RouteTable[n].points[i] \notin DOMAIN LOCATIONS

\* C8: with an unregistered stop in the route table, no pass under any
\* selector completes, and none adds a marker or a line to the map, shows the
\* map or emits a day block.
C8_FailFast ==
    TableHasUnregisteredStop =>
        /\ pc # "done"
        /\ markers = <<>>
        /\ polylines = <<>>
        /\ blocks = <<>>
        /\ \A j \in 1..Len(page) : page[j] # "map"

\* C9: a Day n pass ends with exactly one day block and one get_weather
\* call, for day n, with day n's probe coordinates and date; an Overview pass
\* ends with four blocks and four calls in day order; every call issues at
\* most one request, whose start_date and end_date are the same day.
C9_FetchesPerPass ==
    /\ Ended =>
          LET days == IF view_mode = "Overview" THEN <<1, 2, 3, 4>>
                      ELSE <<CHOOSE n \in 1..4 : view_mode = DaySelectors[n]>>
          IN  /\ Len(blocks) = Len(days)
              /\ Len(calls) = Len(days)
              /\ \A j \in 1..Len(days) :
                    /\ blocks[j].day = days[j]
                    /\ calls[j].day = days[j]
                    /\ calls[j].lat = DayPlans[days[j]].probe[1]
                    /\ calls[j].lon = DayPlans[days[j]].probe[2]
                    /\ calls[j].date = day_date[days[j]]
    /\ \A j \in 1..Len(calls) : calls[j].nreq <= 1
    /\ Len(requests) <= Len(calls)
    /\ \A j \in 1..Len(requests) : requests[j].start_date = requests[j].end_date

====
